---------------------------- MODULE Spec2Model ----------------------------
(***************************************************************************)
(* A model of src/main.py: eval_models and load_latest_checkpoints.        *)
(*                                                                         *)
(* The checkpoint tree under `path`, the requested explainers and the      *)
(* outcomes of the collaborators (the model loader, the Evaluator's        *)
(* infidelity computation) are the inputs.  Each action is one statement   *)
(* or one loop iteration of the two functions; `log` records, in call      *)
(* order, every call the run makes to the filesystem and the collaborators.*)
(***************************************************************************)
EXTENDS Integers, Sequences, FiniteSets, TLC

\* ------------------------------------------------------------------ bounds

\* The greatest number of entries of the root directory.
MaxEntries == 2
\* The greatest number of entries of one variant's subdirectory.
MaxCkpts == 2
\* The greatest length of the list of requested explainers.
MaxExplainers == 2
\* The greatest number of calls of eval_models in one behaviour of SpecRuns.
MaxRuns == 3

\* ------------------------------------------------------------------ values

\* The explainer classes main.py imports (each stands for its __name__).
Kinds == {"SHAP", "LIME", "IG"}

\* The class names the model loader can return models of.
Classes == {"BertForSequenceClassification", "RobertaForSequenceClassification"}

\* Python's None; an f-string renders it as the text "None".
None == "None"

\* The names os.listdir(path) reports, by position in the listing.
DirNames == <<"base", "smaller", "l1unstruct", "l1struct">>

\* The infidelities an Evaluator can return.
Scores == {0, 1}

\* Python truthiness of `arch` (None or a string).
Truthy(v) == v # None /\ v # ""

\* One call, as recorded in `log`.
Ev(op, kind, name, n, res) ==
    [op |-> op, kind |-> kind, name |-> name, n |-> n, res |-> res]

Last(s) == s[Len(s)]

\* The indices of the elements of s that satisfy Test.
Indices(s, Test(_)) == {k \in 1..Len(s) : Test(s[k])}

RECURSIVE SeqOfSet(_)
SeqOfSet(S) ==
    IF S = {} THEN <<>>
    ELSE LET k == CHOOSE a \in S : \A b \in S : a <= b
         IN <<k>> \o SeqOfSet(S \ {k})

\* The subsequence of s of the elements that satisfy Test.
Filter(s, Test(_)) ==
    LET idx == SeqOfSet(Indices(s, Test))
    IN [k \in 1..Len(idx) |-> s[idx[k]]]

\* ------------------------------------------------------------------ state

VARIABLES
    pathIsDir,       \* os.path.isdir(path)
    rootEntries,     \* os.listdir(path), each entry with its own listing
    explainers,      \* the `explainers` argument
    pc,              \* the statement the run is at
    raised,          \* the exception that ended the run, or "none"
    runs,            \* the number of calls of eval_models so far
    i,               \* load_latest_checkpoints: root entries visited
    models,          \* load_latest_checkpoints: the local `models`
    arch,            \* load_latest_checkpoints: the local `arch`
    loaded,          \* eval_models: `models, arch` once line 26 has assigned them
    evaluators_dict, \* eval_models: explainer name -> (variant -> Evaluator)
    e,               \* eval_models: explainers taken by the loop of line 30
    m,               \* eval_models: position of the loop of line 32 (0: not in it)
    nextId,          \* the identity the next constructed explainer object gets
    x,               \* eval_models: items taken by the loop of line 36
    y,               \* eval_models: position of the loop of line 39 (0: not in it)
    infidelities,    \* eval_models: the local `infidelities`
    fig,             \* pyplot's current figure
    files,           \* the files under results/figs
    log              \* the calls of the current run, in order

vars == <<pathIsDir, rootEntries, explainers, pc, raised, runs, i, models, arch,
          loaded, evaluators_dict, e, m, nextId, x, y, infidelities, fig,
          files, log>>

env == <<pathIsDir, rootEntries, explainers>>
loadVars == <<i, models, arch>>
buildVars == <<evaluators_dict, e, m, nextId>>
scoreVars == <<x, y, infidelities>>

\* ------------------------------------------------------ ordered mappings

\* A Python dict is a sequence of [key, val] records in insertion order.
HasKey(d, k) == \E j \in 1..Len(d) : d[j].key = k

Keys(d) == [j \in 1..Len(d) |-> d[j].key]

\* d[k] = v with a new key put in front of the others.
DictSetFront(d, k, v) ==
    IF HasKey(d, k)
    THEN [j \in 1..Len(d) |-> IF d[j].key = k THEN [key |-> k, val |-> v] ELSE d[j]]
    ELSE <<[key |-> k, val |-> v]>> \o d

\* d[k] = v: a new key is appended; an existing key keeps its position.
DictSet(d, k, v) ==
    IF HasKey(d, k)
    THEN [j \in 1..Len(d) |-> IF d[j].key = k THEN [key |-> k, val |-> v] ELSE d[j]]
    ELSE Append(d, [key |-> k, val |-> v])

Get(d, k) == (CHOOSE j \in 1..Len(d) : d[j].key = k)

\* ----------------------------------------------------- the checkpoint tree

Range(s) == {s[k] : k \in DOMAIN s}

\* One entry of a variant's subdirectory is its modification time; the entry
\* is named by its position in os.listdir(model_path).  The sort only
\* compares modification times, so they are taken as ranks: every order of
\* the entries, ties included, is one of these listings.
CkptListings ==
    UNION {{c \in [1..n -> 1..MaxCkpts] :
               \A v \in Range(c) : v = 1 \/ (v - 1) \in Range(c)} : n \in 0..MaxCkpts}

\* An entry of the root: a plain file, or a subdirectory with its entries.
RootEntryKinds ==
    {[isdir |-> FALSE, entries |-> <<>>]} \cup
    {[isdir |-> TRUE, entries |-> c] : c \in CkptListings}

RootListings == UNION {[1..n -> RootEntryKinds] : n \in 0..MaxEntries}

\* Roots whose subdirectories hold at most one checkpoint.
PlainListings ==
    UNION {[1..n -> {r \in RootEntryKinds : Len(r.entries) <= 1}] : n \in 0..MaxEntries}

ExplainerLists == UNION {[1..n -> Kinds] : n \in 0..MaxExplainers}

EmptyFig == [bars |-> <<>>, ticks |-> <<>>, title |-> <<>>]

NotLoaded == [set |-> FALSE, models |-> <<>>, arch |-> None]

InitLocals ==
    /\ pc = "start"
    /\ raised = "none"
    /\ runs = 0
    /\ i = 0
    /\ models = <<>>
    /\ arch = None
    /\ loaded = NotLoaded
    /\ evaluators_dict = <<>>
    /\ e = 0
    /\ m = 0
    /\ nextId = 1
    /\ x = 0
    /\ y = 0
    /\ infidelities = <<>>
    /\ fig = EmptyFig
    /\ files = {}
    /\ log = <<>>

\* The entry point's configuration (explainers = [SHAP]) over any tree.
Init ==
    /\ pathIsDir \in BOOLEAN
    /\ rootEntries \in (IF pathIsDir THEN RootListings ELSE {<<>>})
    /\ explainers = <<"SHAP">>
    /\ InitLocals

\* ------------------------------------------------- load_latest_checkpoints

RECURSIVE InsertDescending(_, _, _)
\* j inserted into `sorted` (indices by mtime, newest first) behind every
\* index whose mtime is not older: the sort is stable.
InsertDescending(sorted, j, mtime) ==
    IF sorted = <<>> THEN <<j>>
    ELSE IF mtime[Head(sorted)] >= mtime[j]
         THEN <<Head(sorted)>> \o InsertDescending(Tail(sorted), j, mtime)
         ELSE <<j>> \o sorted

RECURSIVE InsertAscending(_, _, _)
InsertAscending(sorted, j, mtime) ==
    IF sorted = <<>> THEN <<j>>
    ELSE IF mtime[Head(sorted)] <= mtime[j]
         THEN <<Head(sorted)>> \o InsertAscending(Tail(sorted), j, mtime)
         ELSE <<j>> \o sorted

RECURSIVE SortedUpTo(_, _)
SortedUpTo(mtime, n) ==
    IF n = 0 THEN <<>>
    ELSE InsertDescending(SortedUpTo(mtime, n - 1), n, mtime)

RECURSIVE AscendingUpTo(_, _)
AscendingUpTo(mtime, n) ==
    IF n = 0 THEN <<>>
    ELSE InsertAscending(AscendingUpTo(mtime, n - 1), n, mtime)

\* sorted(..., key=os.path.getmtime) without reverse=True: oldest first.
SortedOldestFirst(mtime) == AscendingUpTo(mtime, Len(mtime))

\* sorted(..., key=os.path.getmtime, reverse=True): the entries of a
\* subdirectory (by listing position), newest first.
Sorted(mtime) == SortedUpTo(mtime, Len(mtime))

\* `if checkpoints:` without the test.
AnyCheckpoints(checkpoints) == TRUE

\* `if checkpoints:`
HasCheckpoints(checkpoints) == checkpoints # <<>>

\* checkpoints[0], 0 when there is none to take.
LatestCheckpoint(checkpoints) ==
    IF checkpoints = <<>> THEN 0 ELSE checkpoints[1]

\* `arch = model.__class__.__name__` without the `if not arch` guard.
ArchOfLatest(a, cls) == cls

\* `if not arch: arch = model.__class__.__name__`
ArchAfter(a, cls) == IF ~Truthy(a) THEN cls ELSE a

\* `if not os.path.isdir(path)` without the test.
IsDirAlways(isdir) == TRUE

\* os.path.isdir(path)
IsDir(isdir) == isdir

ResetLocals ==
    /\ i' = 0
    /\ models' = <<>>
    /\ arch' = None
    /\ loaded' = NotLoaded
    /\ evaluators_dict' = <<>>
    /\ e' = 0
    /\ m' = 0
    /\ nextId' = 1
    /\ x' = 0
    /\ y' = 0
    /\ infidelities' = <<>>
    /\ raised' = "none"
    /\ log' = <<>>

\* The entry point runs: eval_models is called in a new process (line 26
\* enters load_latest_checkpoints, lines 81-82).
Call(limit) ==
    /\ pc \in {"start", "done"}
    /\ runs < limit
    /\ pc' = "check"
    /\ runs' = runs + 1
    /\ ResetLocals
    /\ fig' = EmptyFig
    /\ UNCHANGED <<env, files>>

\* Lines 85-86: the path is no directory.
RaiseNotFound ==
    /\ pc = "check"
    /\ ~IsDir(pathIsDir)
    /\ pc' = "done"
    /\ raised' = "FileNotFoundError"
    /\ UNCHANGED <<env, runs, loadVars, loaded, buildVars, scoreVars, fig, files, log>>

\* Lines 85, 89: the path is a directory and is listed.
ListRoot ==
    /\ pc = "check"
    /\ IsDir(pathIsDir)
    /\ pc' = "load"
    /\ log' = Append(log, Ev("listdir", "", "", 0, ""))
    /\ UNCHANGED <<env, raised, runs, loadVars, loaded, buildVars, scoreVars, fig, files>>

\* Lines 89-93: the next entry is no directory.
SkipFile ==
    /\ pc = "load"
    /\ i < Len(rootEntries)
    /\ ~rootEntries[i + 1].isdir
    /\ i' = i + 1
    /\ UNCHANGED <<env, pc, raised, runs, models, arch, loaded, buildVars,
                   scoreVars, fig, files, log>>

\* Lines 89-103: the next entry is a subdirectory with nothing to load.
SkipEmpty ==
    /\ pc = "load"
    /\ i < Len(rootEntries)
    /\ rootEntries[i + 1].isdir
    /\ ~HasCheckpoints(Sorted(rootEntries[i + 1].entries))
    /\ i' = i + 1
    /\ log' = Append(log, Ev("listdir", "", DirNames[i + 1], 0, ""))
    /\ UNCHANGED <<env, pc, raised, runs, models, arch, loaded, buildVars,
                   scoreVars, fig, files>>

\* Lines 89-111: the next entry is a subdirectory; its latest checkpoint
\* loads as a model of class cls.
LoadModel ==
    /\ pc = "load"
    /\ i < Len(rootEntries)
    /\ rootEntries[i + 1].isdir
    /\ LET checkpoints == Sorted(rootEntries[i + 1].entries)
           latest_checkpoint == LatestCheckpoint(checkpoints)
           model_dir == DirNames[i + 1]
       IN /\ HasCheckpoints(checkpoints)
          /\ \E cls \in Classes :
                /\ models' = DictSet(models, model_dir,
                                     [ckpt |-> latest_checkpoint, cls |-> cls])
                /\ arch' = ArchAfter(arch, cls)
                /\ log' = log \o <<Ev("listdir", "", model_dir, 0, ""),
                                   Ev("from_pretrained", "", model_dir,
                                      latest_checkpoint, cls)>>
    /\ i' = i + 1
    /\ UNCHANGED <<env, pc, raised, runs, loaded, buildVars, scoreVars, fig, files>>

\* A failed load that is skipped instead of propagated.
LoadSkipsFailure ==
    /\ pc = "load"
    /\ i < Len(rootEntries)
    /\ rootEntries[i + 1].isdir
    /\ LET checkpoints == Sorted(rootEntries[i + 1].entries)
           latest_checkpoint == LatestCheckpoint(checkpoints)
           model_dir == DirNames[i + 1]
       IN /\ HasCheckpoints(checkpoints)
          /\ log' = log \o <<Ev("listdir", "", model_dir, 0, ""),
                             Ev("from_pretrained", "", model_dir,
                                latest_checkpoint, "raise")>>
    /\ i' = i + 1
    /\ UNCHANGED <<env, pc, raised, runs, models, arch, loaded, buildVars,
                   scoreVars, fig, files>>

\* Lines 105-106: from_pretrained raises; nothing catches it.
LoadRaises ==
    /\ pc = "load"
    /\ i < Len(rootEntries)
    /\ rootEntries[i + 1].isdir
    /\ LET checkpoints == Sorted(rootEntries[i + 1].entries)
           latest_checkpoint == LatestCheckpoint(checkpoints)
           model_dir == DirNames[i + 1]
       IN /\ HasCheckpoints(checkpoints)
          /\ log' = log \o <<Ev("listdir", "", model_dir, 0, ""),
                             Ev("from_pretrained", "", model_dir,
                                latest_checkpoint, "raise")>>
    /\ pc' = "done"
    /\ raised' = "LoadError"
    /\ UNCHANGED <<env, runs, loadVars, loaded, buildVars, scoreVars, fig, files>>

\* Lines 113, 26: the listing is exhausted; `models, arch` are returned.
Return ==
    /\ pc = "load"
    /\ i = Len(rootEntries)
    /\ loaded' = [set |-> TRUE, models |-> models, arch |-> arch]
    /\ pc' = "build"
    /\ UNCHANGED <<env, raised, runs, loadVars, buildVars, scoreVars, fig, files, log>>

Load ==
    \/ RaiseNotFound
    \/ ListRoot
    \/ SkipFile
    \/ SkipEmpty
    \/ LoadModel
    \/ LoadRaises
    \/ Return

\* ------------------------------------------------------------ eval_models

\* One explainer object shared by every Evaluator.
SharedExplainer(id, kind, name, model) ==
    [id |-> 1, kind |-> kind, name |-> name, model |-> model]

\* explainer(model, tokenizer, device): a new object bound to the model.
NewExplainer(id, kind, name, model) ==
    [id |-> id, kind |-> kind, name |-> name, model |-> model]

\* Lines 30-31: the next requested explainer; its row starts empty.
BuildKind ==
    /\ pc = "build"
    /\ m = 0
    /\ e < Len(explainers)
    /\ e' = e + 1
    /\ m' = 1
    /\ evaluators_dict' = DictSet(evaluators_dict, explainers[e + 1], <<>>)
    /\ UNCHANGED <<env, pc, raised, runs, loadVars, loaded, nextId, scoreVars,
                   fig, files, log>>

\* Lines 32-34: one Evaluator over a new explainer for the next model.
BuildEvaluator ==
    /\ pc = "build"
    /\ m >= 1
    /\ m <= Len(loaded.models)
    /\ LET exp == explainers[e]
           name == loaded.models[m].key
           model == loaded.models[m].val
           evaluator == [explainer |-> NewExplainer(nextId, exp, name, model)]
           row == evaluators_dict[Get(evaluators_dict, exp)].val
       IN /\ evaluators_dict' =
                DictSet(evaluators_dict, exp, DictSet(row, name, evaluator))
          /\ log' = Append(log, Ev("Evaluator", exp, name, nextId, ""))
    /\ nextId' = nextId + 1
    /\ m' = m + 1
    /\ UNCHANGED <<env, pc, raised, runs, loadVars, loaded, e, scoreVars, fig, files>>

\* Line 32: the models are exhausted for this explainer.
BuildKindDone ==
    /\ pc = "build"
    /\ m >= 1
    /\ m > Len(loaded.models)
    /\ m' = 0
    /\ UNCHANGED <<env, pc, raised, runs, loadVars, loaded, evaluators_dict, e,
                   nextId, scoreVars, fig, files, log>>

\* Lines 30, 36: the explainers are exhausted; scoring starts.
BuildDone ==
    /\ pc = "build"
    /\ m = 0
    /\ e = Len(explainers)
    /\ pc' = "score"
    /\ UNCHANGED <<env, raised, runs, loadVars, loaded, buildVars, scoreVars,
                   fig, files, log>>

Build ==
    \/ BuildKind
    \/ BuildEvaluator
    \/ BuildKindDone
    \/ BuildDone

\* Lines 36-38: the next row of evaluators_dict; its result starts empty.
ScoreKind ==
    /\ pc = "score"
    /\ y = 0
    /\ x < Len(evaluators_dict)
    /\ x' = x + 1
    /\ y' = 1
    /\ infidelities' = <<>>
    /\ UNCHANGED <<env, pc, raised, runs, loadVars, loaded, buildVars, fig, files, log>>

\* Lines 39-43: the next Evaluator returns an infidelity.
ScoreModel ==
    /\ pc = "score"
    /\ y >= 1
    /\ y <= Len(evaluators_dict[x].val)
    /\ LET exp == evaluators_dict[x].key
           model == evaluators_dict[x].val[y].key
       IN \E infid \in Scores :
             /\ infidelities' = DictSet(infidelities, model, infid)
             /\ log' = Append(log, Ev("evaluate_infidelity", exp, model, infid, "ok"))
    /\ y' = y + 1
    /\ UNCHANGED <<env, pc, raised, runs, loadVars, loaded, buildVars, x, fig, files>>

\* A failed scoring that is skipped instead of propagated.
ScoreSkipsFailure ==
    /\ pc = "score"
    /\ y >= 1
    /\ y <= Len(evaluators_dict[x].val)
    /\ LET exp == evaluators_dict[x].key
           model == evaluators_dict[x].val[y].key
       IN log' = Append(log, Ev("evaluate_infidelity", exp, model, 0, "raise"))
    /\ y' = y + 1
    /\ UNCHANGED <<env, pc, raised, runs, loadVars, loaded, buildVars, x,
                   infidelities, fig, files>>

\* Lines 40-41: the Evaluator raises; nothing catches it.
ScoreRaises ==
    /\ pc = "score"
    /\ y >= 1
    /\ y <= Len(evaluators_dict[x].val)
    /\ LET exp == evaluators_dict[x].key
           model == evaluators_dict[x].val[y].key
       IN log' = Append(log, Ev("evaluate_infidelity", exp, model, 0, "raise"))
    /\ pc' = "done"
    /\ raised' = "ScoringError"
    /\ UNCHANGED <<env, runs, loadVars, loaded, buildVars, scoreVars, fig, files>>

\* plt.bar(range(len(infidelities)), infidelities.values()): the bars are
\* added to the current axes, which keep the bars they hold.
Bars(inf) == [k \in 1..Len(inf) |-> [x |-> k - 1, height |-> inf[k].val]]

\* Lines 46-50: the chart is drawn on pyplot's current figure.
PlotChart ==
    /\ pc = "score"
    /\ y >= 1
    /\ y > Len(evaluators_dict[x].val)
    /\ fig' = [bars |-> fig.bars \o Bars(infidelities),
               ticks |-> Keys(infidelities),
               title |-> <<evaluators_dict[x].key, loaded.arch>>]
    /\ pc' = "save"
    /\ UNCHANGED <<env, raised, runs, loadVars, loaded, buildVars, scoreVars, files, log>>

\* os.path.exists of results/figs/{exp}_topk_{a}.png (n = 0) or
\* results/figs/{exp}_topk_{a}_{n}.png.
Exists(fs, exp, a, n) ==
    \E f \in fs : f.exp = exp /\ f.arch = a /\ f.n = n

RECURSIVE Probe(_, _, _, _)
\* Lines 59-61 from the candidate of suffix n on.
Probe(fs, exp, a, n) ==
    IF Exists(fs, exp, a, n) THEN Probe(fs, exp, a, n + 1) ELSE n

\* Lines 57-61 without the loop: the first candidate is taken.
FirstCandidate(fs, exp, a) == 0

\* Lines 57-61: the suffix of the first candidate that does not exist.
UniqueSuffix(fs, exp, a) == Probe(fs, exp, a, 0)

\* A file written at a path: what was there is replaced.
WriteFile(fs, exp, a, n, content) ==
    {f \in fs : ~(f.exp = exp /\ f.arch = a /\ f.n = n)}
        \cup {[exp |-> exp, arch |-> a, n |-> n, content |-> content]}

\* Lines 53-64: the current figure is saved under a name not in use.
SaveChart ==
    /\ pc = "save"
    /\ LET exp == evaluators_dict[x].key
           n == UniqueSuffix(files, exp, loaded.arch)
       IN /\ files' = WriteFile(files, exp, loaded.arch, n, fig)
          /\ log' = Append(log, Ev("savefig", exp, loaded.arch, n, ""))
    /\ pc' = "score"
    /\ y' = 0
    /\ UNCHANGED <<env, raised, runs, loadVars, loaded, buildVars, x,
                   infidelities, fig>>

\* Line 36: the rows are exhausted; eval_models returns.
Finish ==
    /\ pc = "score"
    /\ y = 0
    /\ x = Len(evaluators_dict)
    /\ pc' = "done"
    /\ UNCHANGED <<env, raised, runs, loadVars, loaded, buildVars, scoreVars,
                   fig, files, log>>

Score ==
    \/ ScoreKind
    \/ ScoreModel
    \/ ScoreRaises
    \/ PlotChart
    \/ SaveChart
    \/ Finish

\* --------------------------------------------------------- specifications

\* One call of eval_models.
Next == Call(1) \/ Load \/ Build \/ Score

Spec == Init /\ [][Next]_vars

\* One call with any list of explainers, over variants of at most one
\* checkpoint each.
InitEval ==
    /\ pathIsDir \in BOOLEAN
    /\ rootEntries \in (IF pathIsDir THEN PlainListings ELSE {<<>>})
    /\ explainers \in ExplainerLists
    /\ InitLocals

SpecEval == InitEval /\ [][Next]_vars

\* Repeated runs over one tree: a plain file, an empty variant and a variant
\* of one checkpoint.
InitRuns ==
    /\ pathIsDir \in BOOLEAN
    /\ rootEntries = (IF pathIsDir
                      THEN <<[isdir |-> FALSE, entries |-> <<>>],
                             [isdir |-> TRUE, entries |-> <<>>],
                             [isdir |-> TRUE, entries |-> <<1>>]>>
                      ELSE <<>>)
    /\ explainers \in {<<"SHAP">>, <<"LIME", "SHAP">>}
    /\ InitLocals

NextRuns == Call(MaxRuns) \/ Load \/ Build \/ Score

SpecRuns == InitRuns /\ [][NextRuns]_vars

\* ------------------------------------------------------ reading the log

IsLoad(ev) == ev.op = "from_pretrained"
IsLoaded(ev) == ev.op = "from_pretrained" /\ ev.res # "raise"
IsConstruct(ev) == ev.op = "Evaluator"
IsScore(ev) == ev.op = "evaluate_infidelity"
IsSave(ev) == ev.op = "savefig"

\* The position in the root listing of the entry of this name.
DirIndex(name) == CHOOSE j \in 1..Len(DirNames) : DirNames[j] = name

\* Whether root entry j is a subdirectory with at least one entry.
IsVariant(j) == rootEntries[j].isdir /\ rootEntries[j].entries # <<>>

\* Whether root entry j is a subdirectory with no entry.
IsEmptyDir(j) == rootEntries[j].isdir /\ rootEntries[j].entries = <<>>

\* The load calls made for root entry j.
LoadsOf(j) == Indices(log, LAMBDA ev : IsLoad(ev) /\ ev.name = DirNames[j])

\* The construction of the Evaluator matrix is over.
BuildFinished ==
    \/ pc \in {"score", "save"}
    \/ pc = "done" /\ raised \in {"none", "ScoringError"}

\* ------------------------------------------------------------------ C1

\* C1: every subdirectory with at least one entry gets exactly one load, of
\* an entry whose modification time is the maximum of the subdirectory; no
\* older entry is ever passed to the loader; the models are keyed by the
\* subdirectory's name.
C1_LatestCheckpointLoaded ==
    /\ \A k \in 1..Len(log) :
          IsLoad(log[k]) =>
             LET entries == rootEntries[DirIndex(log[k].name)].entries
             IN /\ log[k].n \in 1..Len(entries)
                /\ \A c \in 1..Len(entries) : entries[c] <= entries[log[k].n]
    /\ \A j \in 1..Len(rootEntries) :
          (IsVariant(j) /\ j <= i) =>
             /\ Cardinality(LoadsOf(j)) = 1
             /\ HasKey(models, DirNames[j])
             /\ \A k \in LoadsOf(j) :
                   models[Get(models, DirNames[j])].val.ckpt = log[k].n
    /\ loaded.set =>
          /\ loaded.models = models
          /\ Range(Keys(models)) =
                {DirNames[j] : j \in {v \in 1..Len(rootEntries) : IsVariant(v)}}
          /\ Len(models) = Cardinality(Range(Keys(models)))

\* Two variants returned, one loaded from its second entry, the newer of two.
C1_Witness ==
    /\ loaded.set
    /\ Len(loaded.models) = 2
    /\ \E j \in 1..Len(rootEntries) :
          /\ rootEntries[j].entries = <<1, 2>>
          /\ loaded.models[Get(loaded.models, DirNames[j])].val.ckpt = 2

\* ------------------------------------------------------------------ C2

\* C2: a subdirectory with no entry causes no load, no key and no failure,
\* and the other variants are still loaded and returned.
C2_EmptyVariantSkipped ==
    \A j \in 1..Len(rootEntries) :
       IsEmptyDir(j) =>
          /\ LoadsOf(j) = {}
          /\ ~HasKey(models, DirNames[j])
          /\ ~HasKey(loaded.models, DirNames[j])
          /\ (raised # "none" => i + 1 # j)
          /\ (j <= i /\ raised = "none" /\ pc = "load" =>
                \A v \in 1..i : IsVariant(v) => HasKey(models, DirNames[v]))
          /\ (loaded.set =>
                \A v \in 1..Len(rootEntries) :
                   IsVariant(v) => HasKey(loaded.models, DirNames[v]))

\* An empty subdirectory was passed over and the variant listed after it is
\* in the returned mapping.
C2_Witness ==
    /\ loaded.set
    /\ Len(rootEntries) = 2
    /\ IsEmptyDir(1)
    /\ IsVariant(2)
    /\ Keys(loaded.models) = <<DirNames[2]>>

\* ------------------------------------------------------------------ C3

\* C3: when the root path is no directory the run fails with the not-found
\* error before any listing and any load; nothing is returned, no Evaluator
\* is constructed, nothing is scored and no chart is drawn or written.
C3_NotFoundAborts ==
    (~pathIsDir /\ pc # "start") =>
       /\ pc \in {"check", "done"}
       /\ (pc = "done" => raised = "FileNotFoundError")
       /\ log = <<>>
       /\ ~loaded.set
       /\ models = <<>>
       /\ evaluators_dict = <<>>
       /\ fig = EmptyFig
       /\ files = {}

C3_Witness ==
    /\ ~pathIsDir
    /\ pc = "done"
    /\ raised = "FileNotFoundError"
    /\ explainers # <<>>

\* ------------------------------------------------------------------ C8

\* C8: a load that fails ends the run: the error is not caught, the entries
\* not yet visited are never loaded, the models already loaded are not
\* returned, no Evaluator is constructed, nothing is scored, no chart is
\* written.
C8_LoadErrorAborts ==
    /\ \A k \in 1..Len(log) :
          (IsLoad(log[k]) /\ log[k].res = "raise") =>
             /\ k = Len(log)
             /\ pc = "done"
             /\ raised = "LoadError"
    /\ raised = "LoadError" =>
          /\ pc = "done"
          /\ IsLoad(Last(log)) /\ Last(log).res = "raise"
          /\ Last(log).name = DirNames[i + 1]
          /\ \A j \in (i + 2)..Len(rootEntries) :
                \A k \in 1..Len(log) : log[k].name # DirNames[j]
          /\ ~loaded.set
          /\ loaded.models = <<>>
          /\ evaluators_dict = <<>>
          /\ fig = EmptyFig
          /\ files = {}

\* The second of two variants fails to load after the first was loaded.
C8_Witness ==
    /\ raised = "LoadError"
    /\ Len(models) = 1
    /\ i = 1
    /\ Len(rootEntries) = 2

\* ------------------------------------------------------------------ C9

\* C9: the architecture label is the class name of the first model loaded,
\* in listing order, whatever the classes of the models loaded later; it is
\* None as long as, and on return if, no model was loaded.
C9_ArchOfFirstModel ==
    LET loads == Filter(log, IsLoaded)
    IN /\ arch = (IF loads = <<>> THEN None ELSE loads[1].res)
       /\ (models # <<>> => arch = models[1].val.cls)
       /\ (models = <<>> => arch = None)
       /\ (loaded.set => loaded.arch = arch)

\* Two models of different classes were loaded and returned.
C9_Witness ==
    /\ loaded.set
    /\ Len(loaded.models) = 2
    /\ loaded.models[1].val.cls # loaded.models[2].val.cls
    /\ loaded.arch = loaded.models[1].val.cls

\* ------------------------------------------------------------------ C4

\* The Evaluators of the matrix, each with the row and the key it is under.
AllEvaluators ==
    UNION {{[exp |-> evaluators_dict[a].key,
             name |-> evaluators_dict[a].val[b].key,
             evaluator |-> evaluators_dict[a].val[b].val] :
               b \in 1..Len(evaluators_dict[a].val)} :
           a \in 1..Len(evaluators_dict)}

\* The number of entries of the matrix.
NumEvaluators ==
    LET RECURSIVE Sum(_)
        Sum(a) == IF a = 0 THEN 0 ELSE Len(evaluators_dict[a].val) + Sum(a - 1)
    IN Sum(Len(evaluators_dict))

\* The matrix holds one Evaluator per (explainer name, variant) pair, each
\* over an explainer object of its own, bound to that variant's model.
OnePerPair ==
    /\ Range(Keys(evaluators_dict)) = Range(explainers)
    /\ Len(evaluators_dict) = Cardinality(Range(explainers))
    /\ \A a \in 1..Len(evaluators_dict) :
          Keys(evaluators_dict[a].val) = Keys(loaded.models)
    /\ \A ev \in AllEvaluators :
          /\ ev.evaluator.explainer.kind = ev.exp
          /\ ev.evaluator.explainer.name = ev.name
          /\ ev.evaluator.explainer.model =
                loaded.models[Get(loaded.models, ev.name)].val
    /\ \A ev1, ev2 \in AllEvaluators :
          ev1.evaluator.explainer.id = ev2.evaluator.explainer.id => ev1 = ev2

\* C4: the matrix holds exactly one Evaluator per (explainer kind, variant)
\* pair, none sharing its explainer object with another, so their number is
\* the number of requested kinds times the number of variants.  The kinds
\* are the distinct names of the requested list: the matrix is keyed by
\* explainer.__name__, and a name listed twice has one row.
C4_OneEvaluatorPerPair ==
    BuildFinished =>
       /\ OnePerPair
       /\ NumEvaluators = Cardinality(Range(explainers)) * Len(loaded.models)
       /\ Cardinality(AllEvaluators) = NumEvaluators

\* Two different explainers over two variants: four Evaluators.
C4_Witness ==
    /\ BuildFinished
    /\ Cardinality(Range(explainers)) = 2
    /\ Len(loaded.models) = 2
    /\ NumEvaluators = 4

\* ------------------------------------------------------------------ C6

\* C6: a scoring call that raises ends the run with that error: it is the
\* run's last call, so the remaining variants are not scored, and no chart
\* of that explainer is drawn or written.
C6_ScoringErrorAborts ==
    /\ \A k \in 1..Len(log) :
          (IsScore(log[k]) /\ log[k].res = "raise") =>
             /\ k = Len(log)
             /\ pc = "done"
             /\ raised = "ScoringError"
    /\ raised = "ScoringError" =>
          LET E == evaluators_dict[x].key
          IN /\ pc = "done"
             /\ IsScore(Last(log)) /\ Last(log).res = "raise"
             /\ Last(log).kind = E
             /\ Last(log).name = evaluators_dict[x].val[y].key
             /\ \A k \in 1..Len(log) : IsSave(log[k]) => log[k].kind # E
             /\ \A f \in files : f.exp # E
             /\ (fig.title # <<>> => fig.title[1] # E)
             /\ Cardinality(Indices(log, LAMBDA ev : IsScore(ev) /\ ev.kind = E)) = y

\* The second variant's scoring raises after the first variant was scored.
C6_Witness ==
    /\ raised = "ScoringError"
    /\ Len(infidelities) = 1
    /\ y = 2
    /\ Len(loaded.models) = 2

\* ------------------------------------------------------------------ C7

\* The bars of the infidelities the log records for an explainer.
ScoredBars(exp) ==
    LET scored == Filter(log, LAMBDA ev : IsScore(ev) /\ ev.kind = exp /\ ev.res = "ok")
    IN [k \in 1..Len(scored) |-> [x |-> k - 1, height |-> scored[k].n]]

\* C7: every chart written holds exactly one bar per variant, of the height
\* of its own explainer's infidelity for that variant, with the variants'
\* names on the axis, and no other bar.
C7_ChartOfOwnKind ==
    \A f \in files :
       /\ Len(f.content.bars) = Len(loaded.models)
       /\ f.content.bars = ScoredBars(f.exp)
       /\ f.content.ticks = Keys(loaded.models)

\* ------------------------------------------------------------------ C10

RECURSIVE FirstOccurrences(_)
\* The names of a list, each at its first occurrence.
FirstOccurrences(s) ==
    IF s = <<>> THEN <<>>
    ELSE LET front == FirstOccurrences(SubSeq(s, 1, Len(s) - 1))
         IN IF Last(s) \in Range(front) THEN front ELSE Append(front, Last(s))

\* C10: every Evaluator is constructed before the first scoring call; the
\* explainers are then taken in request order, each one's variants scored
\* in order and its chart written before the next explainer's first scoring
\* call; when a scoring call raises during the j-th explainer, the charts
\* written are those of the explainers before it, and nothing follows.
C10_PhaseOrder ==
    LET order == FirstOccurrences(explainers)
        names == Keys(loaded.models)
        block == Len(names) + 1
        calls == Filter(log, LAMBDA ev : IsScore(ev) \/ IsSave(ev))
    IN /\ \A a, b \in 1..Len(log) :
             (IsConstruct(log[a]) /\ IsScore(log[b])) => a < b
       /\ (calls # <<>> =>
             Cardinality(Indices(log, IsConstruct)) = Len(explainers) * Len(names))
       /\ \A p \in 1..Len(calls) :
             LET kth == ((p - 1) \div block) + 1
                 pos == ((p - 1) % block) + 1
             IN /\ kth <= Len(order)
                /\ calls[p].kind = order[kth]
                /\ IF pos <= Len(names)
                   THEN IsScore(calls[p]) /\ calls[p].name = names[pos]
                   ELSE IsSave(calls[p])
                /\ (calls[p].res = "raise" => p = Len(calls))
       /\ raised = "ScoringError" =>
             /\ {f.exp : f \in files} = {order[k] : k \in 1..(x - 1)}
             /\ Cardinality(files) = x - 1
             /\ Cardinality(Indices(log, IsSave)) = x - 1

\* Scoring raises during the second explainer, after the first one's chart.
C10_Witness ==
    /\ raised = "ScoringError"
    /\ x = 2
    /\ Len(loaded.models) = 2
    /\ Cardinality(files) = 1

\* ------------------------------------------------------------------ C5

\* The files of the same explainer and architecture as f.
SamePair(fs, f) == {g \in fs : g.exp = f.exp /\ g.arch = f.arch}

\* C5: no step removes or changes a file under results/figs, and a step
\* that writes a chart adds one file, whose suffix is the number of charts
\* already there for its explainer and architecture (none for the first,
\* _1 for the second, _2 for the third).
C5_NeverOverwrites ==
    [][/\ \A f \in files : f \in files'
       /\ files' # files =>
             \E f \in files' \ files :
                /\ files' = files \cup {f}
                /\ f.n = Cardinality(SamePair(files, f))]_vars

\* Three charts of one explainer and architecture: no suffix, _1 and _2.
C5_Witness ==
    \E f \in files :
       /\ f.n = 2
       /\ {g.n : g \in SamePair(files, f)} = {0, 1, 2}
       /\ Cardinality(SamePair(files, f)) = 3

=============================================================================
